---- MODULE Spec2Model ----
(***************************************************************************)
(* University WiFi monitoring system: the quality scorer, the geospatial   *)
(* filter, the current-location resolver and the recommendation composer   *)
(* of src/src/analytics/recommendation_engine.py, over the SQLite store    *)
(* that src/src/backend/app.py creates and fills.                          *)
(*                                                                         *)
(* Units.  The program computes on floats; the model computes on integers: *)
(*   latitude, longitude   1e-4 degree        (0.009 degree = 90)          *)
(*   angles, sin, cos, a   1e-8               (fixed point, FP)            *)
(*   distance, radius      centimetre         (1000 m = 100000)            *)
(*   latency               1e-3 of the unit the code multiplies by 1000    *)
(*   quality_score         1e-2               (24.10 = 2410)               *)
(*   download, upload, connected_users, signal_strength: whole numbers     *)
(* With whole-numbered fields the weighted sum is a whole number of        *)
(* hundredths, so round(quality_score, 2) is exact on every modelled input.*)
(***************************************************************************)
EXTENDS Integers, Sequences, FiniteSets, TLC

(***************************************************************************)
(* None (Python) / NULL (SQL): a value outside the domain of every field.  *)
(***************************************************************************)
None == -999999999

(* float('inf'): larger than every finite latency of the model *)
Inf == 2000000000

Min(a, b) == IF a <= b THEN a ELSE b
Max(a, b) == IF a >= b THEN a ELSE b
Abs(a) == IF a < 0 THEN -a ELSE a

(* x / 2 on a float is exact, hence odd in x *)
Half(x) == IF x < 0 THEN -((-x) \div 2) ELSE x \div 2

(***************************************************************************)
(* Fixed-point arithmetic for math.radians, math.sin, math.cos, math.sqrt  *)
(* and math.asin.  A real v is held as the integer v * FP; the square of   *)
(* such a number is held exactly as a pair <<hi, lo>> = hi * FP + lo in    *)
(* units of 1e-16, so that the small values of `a` for points a few        *)
(* metres apart keep their precision as they do in a float.                *)
(***************************************************************************)
FP == 100000000
HalfFP == 10000
PI == 314159265

(* exact product of two naturals below 3.2 * FP, as a pair *)
MulFull(a, b) ==
    LET a1 == a \div HalfFP
        a0 == a % HalfFP
        b1 == b \div HalfFP
        b0 == b % HalfFP
        m  == a1 * b0 + a0 * b1
        lo == (m % HalfFP) * HalfFP + a0 * b0
    IN  << a1 * b1 + (m \div HalfFP) + (lo \div FP), lo % FP >>

(* signed product of two fixed-point numbers, truncated to 1e-8 *)
MulS(a, b) ==
    (IF (a < 0) # (b < 0) THEN -1 ELSE 1) * MulFull(Abs(a), Abs(b))[1]

PairLE(p, q) == p[1] < q[1] \/ (p[1] = q[1] /\ p[2] <= q[2])

PairAdd(p, q) ==
    LET lo == p[2] + q[2]
    IN  << p[1] + q[1] + (lo \div FP), lo % FP >>

(* pair * fixed-point number k in [0, 1], as a pair *)
PairScale(p, k) ==
    PairAdd(MulFull(p[1], k), << 0, MulFull(p[2], k)[1] >>)

(* 1 - p for a pair p in [0, 1] *)
PairComplement(p) ==
    IF p[2] = 0 THEN << FP - p[1], 0 >> ELSE << FP - p[1] - 1, FP - p[2] >>

(* math.radians on a coordinate in 1e-4 degree: x * pi / 180 *)
Radians(u) ==
    LET n  == Abs(u)
        n1 == n \div 1000
        n0 == n % 1000
        r  == n * 174 + (n1 * 532925) \div 1000 + (n0 * 532925) \div 1000000
    IN  IF u < 0 THEN -r ELSE r

SeriesTerms == 14

(* math.sin: x - x^3/3! + x^5/5! - ...   (|x| <= pi/2 + a little); the   *)
(* series adds `term` and goes on with the next one                        *)
RECURSIVE SinSeries(_, _, _, _)
SinSeries(term, x2, n, acc) ==
    IF n > SeriesTerms + 1 \/ term = 0 THEN acc
    ELSE SinSeries(-(MulS(term, x2) \div ((2 * n) * (2 * n + 1))), x2, n + 1, acc + term)

Sin(x) ==
    (IF x < 0 THEN -1 ELSE 1) * SinSeries(Abs(x), MulS(x, x), 1, 0)

(* math.cos: 1 - x^2/2! + x^4/4! - ... *)
RECURSIVE CosSeries(_, _, _, _)
CosSeries(term, x2, n, acc) ==
    IF n > SeriesTerms + 1 \/ term = 0 THEN acc
    ELSE CosSeries(-(MulS(term, x2) \div ((2 * n - 1) * (2 * n))), x2, n + 1, acc + term)

Cos(x) == CosSeries(FP, MulS(x, x), 1, 0)

(* math.sqrt of a pair in [0, 1]: the largest r with r * r <= p *)
RECURSIVE SqrtSearch(_, _, _)
SqrtSearch(p, lo, hi) ==
    IF lo >= hi THEN lo
    ELSE IF PairLE(MulFull((lo + hi + 1) \div 2, (lo + hi + 1) \div 2), p)
         THEN SqrtSearch(p, (lo + hi + 1) \div 2, hi)
         ELSE SqrtSearch(p, lo, (lo + hi + 1) \div 2 - 1)

Sqrt(p) == SqrtSearch(p, 0, FP)

AsinTerms == 40

(* math.asin for 0 <= h <= sqrt(1/2): h + h^3/6 + 3h^5/40 + ... *)
RECURSIVE AsinSeries(_, _, _, _)
AsinSeries(term, h2, n, acc) ==
    IF n > AsinTerms + 1 \/ term = 0 THEN acc
    ELSE AsinSeries((((MulS(term, h2) * (2 * n - 1)) \div (2 * n)) * (2 * n - 1))
                        \div (2 * n + 1),
                    h2, n + 1, acc + term)

Asin(h) == AsinSeries(h, MulS(h, h), 1, 0)

(* radius of earth in meters *)
r == 6371000

(* 2 * math.asin(math.sqrt(a)); for a > 1/2 through asin(h) = pi/2 - asin(sqrt(1 - h^2)) *)
TwoAsinSqrt(a) ==
    (IF a[1] * 2 < FP THEN 0 ELSE PI)
    + (IF a[1] * 2 < FP THEN 2 ELSE -2)
      * Asin(Sqrt(IF a[1] * 2 < FP THEN a ELSE PairComplement(a)))

Square(s) == MulFull(s, s)

(* sin(x)^2, exact *)
SinSquared(x) == Square(Abs(Sin(x)))

(* an arc c (radians, 1e-8) times r, in centimetres *)
ArcLength(c) == (c \div 1000) * (r \div 1000) + ((c % 1000) * (r \div 1000)) \div 1000

(* variant: cos(lat1) taken twice *)
HaversineA_first(lat1, lon1, lat2, lon2) ==
    PairAdd(SinSquared(Half(lat2 - lat1)),
            PairScale(SinSquared(Half(lon2 - lon1)), MulS(Cos(lat1), Cos(lat1))))

(* the `a` of haversine_distance, from the four angles in radians *)
HaversineA(lat1, lon1, lat2, lon2) ==
    PairAdd(SinSquared(Half(lat2 - lat1)),
            PairScale(SinSquared(Half(lon2 - lon1)), MulS(Cos(lat1), Cos(lat2))))

(***************************************************************************)
(* RecommendationEngine.haversine_distance: great circle distance of two   *)
(* points given in 1e-4 degree, in centimetres.                            *)
(***************************************************************************)
haversine_distance(lat1d, lon1d, lat2d, lon2d) ==
    ArcLength(TwoAsinSqrt(HaversineA(Radians(lat1d), Radians(lon1d),
                                     Radians(lat2d), Radians(lon2d))))

(***************************************************************************)
(* The quality scorer.                                                     *)
(***************************************************************************)

(* variant: only None gives the default *)
OrDefault_none(x, default) == IF x = None THEN default ELSE x

(* Python's `x or default`: None and 0 are both falsy *)
OrDefault(x, default) == IF x = None \/ x = 0 THEN default ELSE x

(* round(x, 2) of a value held in units of 1e-4, as hundredths *)
Round2(x) == (x + 50) \div 100

(* calculate_quality_score without the cap of norm_download at 100 *)
calculate_quality_score_uncapped(data) ==
    LET download_speed  == OrDefault(data.download_speed, 0)
        upload_speed    == OrDefault(data.upload_speed, 0)
        latency         == OrDefault(data.latency, Inf)
        connected_users == OrDefault(data.connected_users, 0)
        signal_strength == OrDefault(data.signal_strength, -80)
        norm_download   == download_speed * 100
        norm_upload     == Min(upload_speed * 200, 10000)
        norm_latency    == Max((1000 - Min(latency, 1000)) * 10, 0)
        norm_users      == Max(10000 - Min(connected_users, 50) * 150, 0)
        norm_signal     == Max(0, Min(10000, (130 + signal_strength) * 100))
    IN  Round2(35 * norm_download + 15 * norm_upload + 20 * norm_latency
               + 20 * norm_users + 10 * norm_signal)

(* calculate_quality_score with -89 dBm as the default signal strength *)
calculate_quality_score_signal89(data) ==
    LET download_speed  == OrDefault(data.download_speed, 0)
        upload_speed    == OrDefault(data.upload_speed, 0)
        latency         == OrDefault(data.latency, Inf)
        connected_users == OrDefault(data.connected_users, 0)
        signal_strength == OrDefault(data.signal_strength, -89)
        norm_download   == Min(download_speed * 100, 10000)
        norm_upload     == Min(upload_speed * 200, 10000)
        norm_latency    == Max((1000 - Min(latency, 1000)) * 10, 0)
        norm_users      == Max(10000 - Min(connected_users, 50) * 150, 0)
        norm_signal     == Max(0, Min(10000, (130 + signal_strength) * 100))
    IN  Round2(35 * norm_download + 15 * norm_upload + 20 * norm_latency
               + 20 * norm_users + 10 * norm_signal)

(* RecommendationEngine.calculate_quality_score; the norm_* values are     *)
(* held in hundredths of a point                                           *)
calculate_quality_score(data) ==
    LET download_speed  == OrDefault(data.download_speed, 0)
        upload_speed    == OrDefault(data.upload_speed, 0)
        latency         == OrDefault(data.latency, Inf)
        connected_users == OrDefault(data.connected_users, 0)
        signal_strength == OrDefault(data.signal_strength, -80)
        norm_download   == Min(download_speed * 100, 10000)
        norm_upload     == Min(upload_speed * 200, 10000)
        norm_latency    == Max((1000 - Min(latency, 1000)) * 10, 0)
        norm_users      == Max(10000 - Min(connected_users, 50) * 150, 0)
        norm_signal     == Max(0, Min(10000, (130 + signal_strength) * 100))
        quality_score   == 35 * norm_download
                           + 15 * norm_upload
                           + 20 * norm_latency
                           + 20 * norm_users
                           + 10 * norm_signal
    IN  Round2(quality_score)

(* app.calculate_quality_score *)
app_calculate_quality_score(data) ==
    LET download_speed  == OrDefault(data.download_speed, 0)
        upload_speed    == OrDefault(data.upload_speed, 0)
        latency         == OrDefault(data.latency, Inf)
        connected_users == OrDefault(data.connected_users, 0)
        signal_strength == OrDefault(data.signal_strength, -80)
        norm_download   == Min(download_speed * 100, 10000)
        norm_upload     == Min(upload_speed * 200, 10000)
        norm_latency    == Max((1000 - Min(latency, 1000)) * 10, 0)
        norm_users      == Max(10000 - Min(connected_users, 50) * 150, 0)
        norm_signal     == Max(0, Min(10000, (130 + signal_strength) * 100))
        quality_score   == 35 * norm_download
                           + 15 * norm_upload
                           + 20 * norm_latency
                           + 20 * norm_users
                           + 10 * norm_signal
    IN  Round2(quality_score)

(* get_status_from_score with the lower bound of each band excluded *)
get_status_from_score_strict(score) ==
    IF score > 8000 THEN "Excellent"
    ELSE IF score > 6000 THEN "Good"
    ELSE IF score > 4000 THEN "Medium"
    ELSE "Poor"

(* RecommendationEngine.get_status_from_score, score in hundredths *)
get_status_from_score(score) ==
    IF score >= 8000 THEN "Excellent"
    ELSE IF score >= 6000 THEN "Good"
    ELSE IF score >= 4000 THEN "Medium"
    ELSE "Poor"

(***************************************************************************)
(* The store: the two tables that init_db creates.  Of access_points the   *)
(* model keeps id, ap_name, building, latitude and longitude (floor and    *)
(* room_number are written and read as building is); of                    *)
(* performance_metrics the columns the engine reads.  Rows are kept in     *)
(* rowid order.  collector is the app's global, collectors the collector   *)
(* objects created so far, requests what each serving thread is doing.     *)
(***************************************************************************)
VARIABLES access_points, performance_metrics, now, last_call,
          collector, collectors, requests

vars == << access_points, performance_metrics, now, last_call,
           collector, collectors, requests >>

(* bounds of the model: the rows of the two tables together, and the       *)
(* largest score (in hundredths) given to get_status_from_score            *)
MaxRows == 3
MaxScore == 10000

(* Python None where a dict is expected *)
NoneAP == [id |-> None]

(* the access points a submission can name: ap_name with its coordinates   *)
(* (1e-4 degree)                                                           *)
AccessPointData ==
    { [ap_name |-> "A", latitude |-> 13,   longitude |-> 13],
      [ap_name |-> "B", latitude |-> 15,   longitude |-> 10],
      [ap_name |-> "Z", latitude |-> 0,    longitude |-> 90],
      [ap_name |-> "N", latitude |-> None, longitude |-> None],
      [ap_name |-> "N", latitude |-> 13,   longitude |-> 13] }

(* the building a submission can carry: null, or a string ('', the default *)
(* of data.get('building', ''), is one) other than that of the rows the    *)
(* table starts with                                                       *)
Buildings == { None, 2 }

(* the measurements a submission can carry: 99.80, 45.00 and 25.00 points *)
MetricData ==
    { [download_speed |-> 100, upload_speed |-> 50, latency |-> 10,
       connected_users |-> 0, signal_strength |-> -30],
      [download_speed |-> 50, upload_speed |-> 25, latency |-> 500,
       connected_users |-> 50, signal_strength |-> -80],
      [download_speed |-> None, upload_speed |-> None, latency |-> None,
       connected_users |-> None, signal_strength |-> None] }

(* the field values the scorer is applied to *)
DownloadSpeeds == {None, -100, 0, 50, 100, 120}
UploadSpeeds == {None, 0, 25, 50, 60}
Latencies == {None, -1, 0, 1, 500, 1000, 2000}
ConnectedUsers == {None, 0, 10, 50, 80}
SignalStrengths == {None, -140, -90, -80, -30, -10, 0, 10}

MetricRecords ==
    [ download_speed  : DownloadSpeeds,
      upload_speed    : UploadSpeeds,
      latency         : Latencies,
      connected_users : ConnectedUsers,
      signal_strength : SignalStrengths ]

(* user positions (1e-4 degree), radii (cm) and limits of the queries *)
NearbyQueries ==
    { << 0, 0, 99900 >>, << 0, 0, 100000 >>, << 10, 10, 5000 >>, << 10, 10, 100000 >>,
      << 10, 10, -5000 >>, << 10, 1810000, 100000 >> }
CurrentQueries == { << 10, 10, 5000 >>, << 10, 10, 100000 >> }
RecommendationQueries ==
    { << 10, 10, 100000, 5 >>, << 10, 10, 100000, 1 >>, << 10, 10, 100000, -1 >> }

(* the access_points tables the engine can find at db_path: up to MaxRows  *)
(* rows with distinct names (ap_name TEXT UNIQUE), ids in insertion order  *)
InitialAccessPoints ==
    { t \in UNION { [1..n -> AccessPointData] : n \in 0..MaxRows } :
        \A i, j \in DOMAIN t : i # j => t[i].ap_name # t[j].ap_name }

WithId(d, building, i) ==
    [id |-> i, ap_name |-> d.ap_name, building |-> building,
     latitude |-> d.latitude, longitude |-> d.longitude]

(* the user positions of the queries *)
UserPoints ==
    { << q[1], q[2] >> : q \in NearbyQueries \cup CurrentQueries }
    \cup { << q[1], q[2] >> : q \in RecommendationQueries }

(* haversine_distance between the user positions and the access points of  *)
(* the model, computed once                                                *)
DistanceCache ==
    [ k \in { << u[1], u[2], ap.latitude, ap.longitude >> :
                 u \in UserPoints,
                 ap \in { d \in AccessPointData : d.latitude # None /\ d.longitude # None } }
      |-> haversine_distance(k[1], k[2], k[3], k[4]) ]

(* a call self.haversine_distance(lat1, lon1, lat2, lon2) *)
Distance(lat1, lon1, lat2, lon2) == DistanceCache[<< lat1, lon1, lat2, lon2 >>]

(* `if x:` on a number or None *)
Truthy(x) == x # None /\ x # 0

(***************************************************************************)
(* The query of get_nearby_access_points and get_current_ap_status:        *)
(* access_points LEFT JOIN the performance_metrics rows whose              *)
(* (ap_id, timestamp) is the (ap_id, MAX(timestamp)) of their group,       *)
(* WHERE latitude and longitude are not NULL.                              *)
(***************************************************************************)
MaxTimestamp(pms, ap_id) ==
    LET S == { pms[i].timestamp : i \in { j \in DOMAIN pms : pms[j].ap_id = ap_id } }
    IN  CHOOSE t \in S : \A u \in S : u <= t

LatestMetrics(pms) ==
    SelectSeq(pms, LAMBDA m : m.timestamp = MaxTimestamp(pms, m.ap_id))

NullMetrics ==
    [download_speed |-> None, upload_speed |-> None, latency |-> None,
     connected_users |-> None, signal_strength |-> None, timestamp |-> None]

JoinRow(ap, m) ==
    [id |-> ap.id, ap_name |-> ap.ap_name,
     latitude |-> ap.latitude, longitude |-> ap.longitude,
     download_speed |-> m.download_speed, upload_speed |-> m.upload_speed,
     latency |-> m.latency, connected_users |-> m.connected_users,
     signal_strength |-> m.signal_strength, timestamp |-> m.timestamp]

RECURSIVE LeftJoin(_, _)
LeftJoin(aps, pm) ==
    IF aps = << >> THEN << >>
    ELSE LET ap      == Head(aps)
             matches == SelectSeq(pm, LAMBDA m : m.ap_id = ap.id)
             rows    == IF matches = << >> THEN << JoinRow(ap, NullMetrics) >>
                        ELSE [i \in 1..Len(matches) |-> JoinRow(ap, matches[i])]
         IN  rows \o LeftJoin(Tail(aps), pm)

(* variant: an inner join, which drops the access points without metrics *)
LocatedLatestRows_measured(aps, pms) ==
    LeftJoin(SelectSeq(aps, LAMBDA ap : /\ ap.latitude # None /\ ap.longitude # None
                                        /\ \E i \in DOMAIN pms : pms[i].ap_id = ap.id),
             LatestMetrics(pms))

LocatedLatestRows(aps, pms) ==
    LeftJoin(SelectSeq(aps, LAMBDA ap : ap.latitude # None /\ ap.longitude # None),
             LatestMetrics(pms))

(* list.sort(key = quality_score, reverse = True): descending and stable;  *)
(* the element of rank p is the one that p - 1 others come before, by a    *)
(* higher score or by an equal score and an earlier position               *)
SortByScore(list) ==
    LET Before(i, j) ==
            \/ list[i].quality_score > list[j].quality_score
            \/ /\ list[i].quality_score = list[j].quality_score
               /\ i < j
        Rank(i) == Cardinality({ j \in DOMAIN list : Before(j, i) }) + 1
    IN  [p \in DOMAIN list |-> list[CHOOSE i \in DOMAIN list : Rank(i) = p]]

(* the three assignments to ap_dict before it is returned *)
Annotate(ap_dict, distance) ==
    LET quality_score == calculate_quality_score(ap_dict)
    IN  ap_dict @@ [distance |-> distance, quality_score |-> quality_score,
                    status |-> get_status_from_score(quality_score)]

(* variant: the test without the comparison of the distance *)
WithinRadius_anywhere(ap_dict, user_lat, user_lon, radius) ==
    /\ Truthy(ap_dict.latitude) /\ Truthy(ap_dict.longitude)

(* the test of the loop body of get_nearby_access_points *)
WithinRadius(ap_dict, user_lat, user_lon, radius) ==
    /\ Truthy(ap_dict.latitude) /\ Truthy(ap_dict.longitude)
    /\ Distance(user_lat, user_lon, ap_dict.latitude, ap_dict.longitude) <= radius

(* variant: the list as the loop built it, without the sort *)
get_nearby_access_points_unsorted(aps, pms, user_lat, user_lon, radius) ==
    LET rows   == LocatedLatestRows(aps, pms)
        inside == SelectSeq(rows, LAMBDA row : WithinRadius(row, user_lat, user_lon, radius))
    IN  [i \in 1..Len(inside) |->
            Annotate(inside[i],
                     Distance(user_lat, user_lon, inside[i].latitude, inside[i].longitude))]

(* RecommendationEngine.get_nearby_access_points *)
get_nearby_access_points(aps, pms, user_lat, user_lon, radius) ==
    LET rows   == LocatedLatestRows(aps, pms)
        inside == SelectSeq(rows, LAMBDA row : WithinRadius(row, user_lat, user_lon, radius))
        nearby_aps == [i \in 1..Len(inside) |->
                         Annotate(inside[i],
                                  Distance(user_lat, user_lon,
                                                     inside[i].latitude, inside[i].longitude))]
    IN  SortByScore(nearby_aps)

(* ORDER BY ABS(ap.latitude - ?) + ABS(ap.longitude - ?) LIMIT 1; of rows  *)
(* with equal keys SQLite returns the first in scan order                  *)
Manhattan(row, user_lat, user_lon) ==
    Abs(row.latitude - user_lat) + Abs(row.longitude - user_lon)

ClosestRow(rows, user_lat, user_lon) ==
    LET i == CHOOSE k \in DOMAIN rows :
                 \A j \in DOMAIN rows :
                     \/ Manhattan(rows[k], user_lat, user_lon) < Manhattan(rows[j], user_lat, user_lon)
                     \/ /\ Manhattan(rows[k], user_lat, user_lon) = Manhattan(rows[j], user_lat, user_lon)
                        /\ k <= j
    IN  rows[i]

(* RecommendationEngine.get_current_ap_status *)
get_current_ap_status(aps, pms, user_lat, user_lon, radius) ==
    LET rows == LocatedLatestRows(aps, pms)
    IN  IF rows = << >> THEN NoneAP
        ELSE LET ap_dict == ClosestRow(rows, user_lat, user_lon)
             IN  IF WithinRadius(ap_dict, user_lat, user_lon, radius)
                 THEN Annotate(ap_dict,
                               Distance(user_lat, user_lon,
                                                  ap_dict.latitude, ap_dict.longitude))
                 ELSE NoneAP

(* variant: no slice *)
Take_all(list, n) == list

(* nearby_aps[:num_recommendations]: the first n elements, and for a      *)
(* negative n all but the last -n                                          *)
Take(list, n) ==
    SubSeq(list, 1, IF n >= 0 THEN Min(n, Len(list)) ELSE Max(Len(list) + n, 0))

(* variant: a first recommendation of equal score counts as better *)
_generate_advice_message_lenient(current_ap, recommendations) ==
    IF current_ap = NoneAP THEN [text |-> "couldn't detect"]
    ELSE LET current_score  == current_ap.quality_score
             current_status == current_ap.status
         IN  IF current_score < 4000
             THEN IF recommendations # << >>
                  THEN [text |-> "Best nearby location", status |-> current_status,
                        ap_name |-> recommendations[1].ap_name,
                        download_speed |-> OrDefault(recommendations[1].download_speed, 0)]
                  ELSE [text |-> "no better options", status |-> current_status]
             ELSE IF current_score < 6000
             THEN IF recommendations # << >>
                  THEN IF recommendations[1].quality_score >= current_score
                       THEN [text |-> "could get better performance at",
                             status |-> current_status,
                             ap_name |-> recommendations[1].ap_name]
                       ELSE [text |-> "among the best options", status |-> current_status]
                  ELSE [text |-> "likely the best option", status |-> current_status]
             ELSE [text |-> "Enjoy your fast connection", status |-> current_status]

(* variant: below 40 a location is named only when its score is higher *)
_generate_advice_message_comparing(current_ap, recommendations) ==
    IF current_ap = NoneAP THEN [text |-> "couldn't detect"]
    ELSE LET current_score  == current_ap.quality_score
             current_status == current_ap.status
         IN  IF current_score < 4000
             THEN IF /\ recommendations # << >>
                     /\ recommendations[1].quality_score > current_score
                  THEN [text |-> "Best nearby location", status |-> current_status,
                        ap_name |-> recommendations[1].ap_name,
                        download_speed |-> OrDefault(recommendations[1].download_speed, 0)]
                  ELSE [text |-> "no better options", status |-> current_status]
             ELSE IF current_score < 6000
             THEN IF recommendations # << >>
                  THEN IF recommendations[1].quality_score > current_score
                       THEN [text |-> "could get better performance at",
                             status |-> current_status,
                             ap_name |-> recommendations[1].ap_name]
                       ELSE [text |-> "among the best options", status |-> current_status]
                  ELSE [text |-> "likely the best option", status |-> current_status]
             ELSE [text |-> "Enjoy your fast connection", status |-> current_status]


(* RecommendationEngine._generate_advice_message: the message is kept as   *)
(* the branch taken and the values formatted into it                       *)
_generate_advice_message(current_ap, recommendations) ==
    IF current_ap = NoneAP THEN [text |-> "couldn't detect"]
    ELSE LET current_score  == current_ap.quality_score
             current_status == current_ap.status
         IN  IF current_score < 4000
             THEN IF recommendations # << >>
                  THEN [text |-> "Best nearby location", status |-> current_status,
                        ap_name |-> recommendations[1].ap_name,
                        download_speed |-> OrDefault(recommendations[1].download_speed, 0)]
                  ELSE [text |-> "no better options", status |-> current_status]
             ELSE IF current_score < 6000
             THEN IF recommendations # << >>
                  THEN IF recommendations[1].quality_score > current_score
                       THEN [text |-> "could get better performance at",
                             status |-> current_status,
                             ap_name |-> recommendations[1].ap_name]
                       ELSE [text |-> "among the best options", status |-> current_status]
                  ELSE [text |-> "likely the best option", status |-> current_status]
             ELSE [text |-> "Enjoy your fast connection", status |-> current_status]

(* the default radius of get_current_ap_status, in cm *)
DefaultCurrentRadius == 5000

(* variant: the nearby list is sliced without removing the current one *)
generate_recommendations_unfiltered(aps, pms, user_lat, user_lon, radius, num_recommendations) ==
    LET current_ap == get_current_ap_status(aps, pms, user_lat, user_lon, DefaultCurrentRadius)
        nearby_aps == get_nearby_access_points(aps, pms, user_lat, user_lon, radius)
        recommendations == Take(nearby_aps, num_recommendations)
    IN  [user_location |-> [latitude |-> user_lat, longitude |-> user_lon],
         current_ap |-> current_ap,
         recommendations |-> recommendations,
         total_nearby_aps |-> Len(nearby_aps),
         message |-> _generate_advice_message(current_ap, recommendations)]

(* RecommendationEngine.generate_recommendations, run on one store content *)
generate_recommendations(aps, pms, user_lat, user_lon, radius, num_recommendations) ==
    LET current_ap == get_current_ap_status(aps, pms, user_lat, user_lon, DefaultCurrentRadius)
        found      == get_nearby_access_points(aps, pms, user_lat, user_lon, radius)
        nearby_aps == IF current_ap # NoneAP
                      THEN SelectSeq(found, LAMBDA ap : ap.id # current_ap.id)
                      ELSE found
        recommendations == Take(nearby_aps, num_recommendations)
    IN  [user_location |-> [latitude |-> user_lat, longitude |-> user_lon],
         current_ap |-> current_ap,
         recommendations |-> recommendations,
         total_nearby_aps |-> Len(nearby_aps),
         message |-> _generate_advice_message(current_ap, recommendations)]

(* app.get_access_points, the two assignments to ap_dict in its loop; the  *)
(* app's get_status_from_score is a copy of the engine's                   *)
WithQuality(ap_dict, quality_score) ==
    ap_dict @@ [quality_score |-> quality_score,
                status |-> get_status_from_score(quality_score)]

(* app.get_access_points: GET /api/access-points; every access point,     *)
(* located or not, joined with the latest-metrics subquery                 *)
get_access_points(aps, pms) ==
    [status |-> 200,
     body   |-> LET rows == LeftJoin(aps, LatestMetrics(pms))
                IN  [i \in DOMAIN rows |->
                        WithQuality(rows[i], app_calculate_quality_score(rows[i]))]]

(* RecommendationEngine.get_trend_analysis: cursor.execute is given a      *)
(* statement with TrendPlaceholders `?` (the {} of '-{} hours' is never    *)
(* formatted and is no placeholder) and a tuple of TrendParameters values; *)
(* sqlite3 raises ProgrammingError when the two numbers differ.  With      *)
(* equal numbers the modifier '-{} hours' would make datetime() NULL and   *)
(* the comparison would select no row.                                     *)
TrendPlaceholders == 1

TrendParameters == 2

get_trend_analysis(pms, ap_id, hours_back) ==
    IF TrendParameters # TrendPlaceholders
    THEN [raised |-> "sqlite3.ProgrammingError"]
    ELSE [raised |-> "none", result |-> << >>]

(* the access point ids and window lengths (hours) of the trend queries *)
TrendQueries == { << 1, 24 >>, << 2, 0 >> }

(***************************************************************************)
(* State machine.  last_call is the last operation with its arguments and  *)
(* what it returned.                                                       *)
(***************************************************************************)
(* the app's threads that serve requests, and a thread between requests *)
MaxThreads == 2
Threads == 1..MaxThreads
Idle == [at |-> "idle"]

(* app.py:651, `collector = None`: no collector object exists and no       *)
(* request is being served                                                 *)
NoCollection ==
    /\ collector = None
    /\ collectors = << >>
    /\ requests = [t \in Threads |-> Idle]

NoCall == [op |-> "none"]

(* RecommendationEngine(db_path) reads a store it does not write: the      *)
(* access_points table it finds is any table the schema admits, and no     *)
(* measurement has been recorded yet                                       *)
Init ==
    /\ \E t \in InitialAccessPoints :
          access_points = [i \in 1..Len(t) |-> WithId(t[i], 1, i)]
    /\ performance_metrics = << >>
    /\ now = 0
    /\ last_call = NoCall
    /\ NoCollection

(* CURRENT_TIMESTAMP moves on to a later second; timestamps are only       *)
(* compared with one another, so the clock moves once per instant that a   *)
(* row has recorded                                                        *)
Tick ==
    /\ \E i \in DOMAIN performance_metrics : performance_metrics[i].timestamp = now
    /\ now' = now + 1
    /\ UNCHANGED << access_points, performance_metrics, last_call, collector, collectors, requests >>

(* variant: a plain INSERT into a table without the UNIQUE constraint,     *)
(* which adds a row for a known name as well                               *)
SubmitPerformanceMetrics_duplicating(ap, building, data) ==
    /\ building # None
    /\ Len(access_points) + 1 + Len(performance_metrics) < MaxRows
    /\ access_points' = Append(access_points, WithId(ap, building, Len(access_points) + 1))
    /\ performance_metrics' =
           Append(performance_metrics,
                  [id |-> Len(performance_metrics) + 1, ap_id |-> Len(access_points) + 1,
                   download_speed |-> data.download_speed,
                   upload_speed |-> data.upload_speed,
                   latency |-> data.latency,
                   connected_users |-> data.connected_users,
                   signal_strength |-> data.signal_strength,
                   timestamp |-> now])
    /\ last_call' = [op |-> "submit_performance_metrics", ap_name |-> ap.ap_name,
                     latitude |-> ap.latitude, longitude |-> ap.longitude,
                     building |-> building, status |-> 201,
                     ap_id |-> Len(access_points) + 1]
    /\ UNCHANGED << now, collector, collectors, requests >>

(* app.submit_performance_metrics: POST /api/performance-metrics.  INSERT  *)
(* OR IGNORE skips the row when the name is known (ap_name UNIQUE) and     *)
(* when the building is null (building TEXT NOT NULL); the id is then      *)
(* selected by name, and 500 is returned when no row has the name.  Ids    *)
(* are numbered in insertion order (AUTOINCREMENT gives growing ids).      *)
SubmitPerformanceMetrics(ap, building, data) ==
    LET known  == { i \in DOMAIN access_points : access_points[i].ap_name = ap.ap_name }
        table  == IF known = {} /\ building # None
                  THEN Append(access_points, WithId(ap, building, Len(access_points) + 1))
                  ELSE access_points
        result == { table[i].id : i \in { j \in DOMAIN table : table[j].ap_name = ap.ap_name } }
    IN  IF result = {}
        THEN /\ last_call' = [op |-> "submit_performance_metrics", ap_name |-> ap.ap_name,
                              latitude |-> ap.latitude, longitude |-> ap.longitude,
                              building |-> building, status |-> 500]
             /\ UNCHANGED << access_points, performance_metrics, now, collector, collectors, requests >>
        ELSE /\ Len(table) + Len(performance_metrics) < MaxRows
             /\ access_points' = table
             /\ performance_metrics' =
                    Append(performance_metrics,
                           [id |-> Len(performance_metrics) + 1,
                            ap_id |-> CHOOSE ap_id \in result : TRUE,
                            download_speed |-> data.download_speed,
                            upload_speed |-> data.upload_speed,
                            latency |-> data.latency,
                            connected_users |-> data.connected_users,
                            signal_strength |-> data.signal_strength,
                            timestamp |-> now])
             /\ last_call' = [op |-> "submit_performance_metrics", ap_name |-> ap.ap_name,
                              latitude |-> ap.latitude, longitude |-> ap.longitude,
                              building |-> building, status |-> 201,
                              ap_id |-> CHOOSE ap_id \in result : TRUE]
             /\ UNCHANGED << now, collector, collectors, requests >>

GetNearbyAccessPoints(user_lat, user_lon, radius) ==
    /\ last_call' = [op |-> "get_nearby_access_points",
                     user_lat |-> user_lat, user_lon |-> user_lon, radius |-> radius,
                     result |-> get_nearby_access_points(access_points, performance_metrics,
                                                         user_lat, user_lon, radius)]
    /\ UNCHANGED << access_points, performance_metrics, now, collector, collectors, requests >>

(* variant: the call empties the metrics table *)
GetCurrentApStatus_clearing(user_lat, user_lon, radius) ==
    /\ last_call' = [op |-> "get_current_ap_status",
                     user_lat |-> user_lat, user_lon |-> user_lon, radius |-> radius,
                     result |-> get_current_ap_status(access_points, performance_metrics,
                                                      user_lat, user_lon, radius)]
    /\ performance_metrics' = << >>
    /\ UNCHANGED << access_points, now, collector, collectors, requests >>

GetCurrentApStatus(user_lat, user_lon, radius) ==
    /\ last_call' = [op |-> "get_current_ap_status",
                     user_lat |-> user_lat, user_lon |-> user_lon, radius |-> radius,
                     result |-> get_current_ap_status(access_points, performance_metrics,
                                                      user_lat, user_lon, radius)]
    /\ UNCHANGED << access_points, performance_metrics, now, collector, collectors, requests >>

GenerateRecommendations(user_lat, user_lon, radius, num_recommendations) ==
    /\ last_call' = [op |-> "generate_recommendations",
                     user_lat |-> user_lat, user_lon |-> user_lon, radius |-> radius,
                     num_recommendations |-> num_recommendations,
                     result |-> generate_recommendations(access_points, performance_metrics,
                                                         user_lat, user_lon, radius,
                                                         num_recommendations)]
    /\ UNCHANGED << access_points, performance_metrics, now, collector, collectors, requests >>

GetTrendAnalysis(ap_id, hours_back) ==
    /\ last_call' = [op |-> "get_trend_analysis", ap_id |-> ap_id,
                     hours_back |-> hours_back, at |-> now]
                    @@ get_trend_analysis(performance_metrics, ap_id, hours_back)
    /\ UNCHANGED << access_points, performance_metrics, now, collector, collectors, requests >>

GetAccessPoints ==
    /\ last_call' = [op |-> "get_access_points"]
                    @@ get_access_points(access_points, performance_metrics)
    /\ UNCHANGED << access_points, performance_metrics, now, collector, collectors, requests >>

Next ==
    \/ Tick
    \/ \E ap \in AccessPointData, building \in Buildings, data \in MetricData :
          SubmitPerformanceMetrics(ap, building, data)
    \/ \E q \in NearbyQueries : GetNearbyAccessPoints(q[1], q[2], q[3])
    \/ \E q \in CurrentQueries : GetCurrentApStatus(q[1], q[2], q[3])
    \/ \E q \in RecommendationQueries : GenerateRecommendations(q[1], q[2], q[3], q[4])
    \/ \E q \in TrendQueries : GetTrendAnalysis(q[1], q[2])
    \/ GetAccessPoints

Spec == Init /\ [][Next]_vars

(***************************************************************************)
(* The scorer on its own: the store is empty and stays so; a behaviour     *)
(* applies calculate_quality_score or get_status_from_score to one input.  *)
(***************************************************************************)
InitScorer ==
    /\ access_points = << >>
    /\ performance_metrics = << >>
    /\ now = 0
    /\ last_call = NoCall
    /\ NoCollection

CalculateQualityScore(data) ==
    /\ last_call' = [op |-> "calculate_quality_score", data |-> data,
                     result |-> calculate_quality_score(data)]
    /\ UNCHANGED << access_points, performance_metrics, now, collector, collectors, requests >>

GetStatusFromScore(score) ==
    /\ last_call' = [op |-> "get_status_from_score", score |-> score,
                     result |-> get_status_from_score(score)]
    /\ UNCHANGED << access_points, performance_metrics, now, collector, collectors, requests >>

NextScorer ==
    /\ last_call = NoCall
    /\ \/ \E data \in MetricRecords : CalculateQualityScore(data)
       \/ \E score \in 0..MaxScore : GetStatusFromScore(score)

SpecScorer == InitScorer /\ [][NextScorer]_vars

TypeOK ==
    /\ Len(access_points) + Len(performance_metrics) <= MaxRows
    /\ now \in 0..Len(performance_metrics)

(***************************************************************************)
(* Properties of the scorer, checked under SpecScorer.                     *)
(***************************************************************************)
Scored == last_call.op = "calculate_quality_score"

NonNegative(x) == x = None \/ x >= 0

(* C1: for every record whose download speed, upload speed, latency and    *)
(* connected-user count are each absent or non-negative (0 included), with *)
(* any signal strength, calculate_quality_score returns a value in         *)
(* [0, 100].                                                               *)
C1_ScoreInRange ==
    ( /\ Scored
      /\ NonNegative(last_call.data.download_speed)
      /\ NonNegative(last_call.data.upload_speed)
      /\ NonNegative(last_call.data.latency)
      /\ NonNegative(last_call.data.connected_users) )
    => (0 <= last_call.result /\ last_call.result <= 10000)

(* a record above both throughput caps, with an absent field and fields of *)
(* exactly 0, has been scored                                              *)
C1_Witness ==
    /\ Scored
    /\ last_call.data = [download_speed |-> 120, upload_speed |-> 60, latency |-> 0,
                         connected_users |-> 0, signal_strength |-> None]
    /\ last_call.result = 7500

(* the score of the scored record with one field replaced *)
ScoreWith(field, v) ==
    calculate_quality_score([last_call.data EXCEPT ![field] = v])

(* C2: holding the other fields fixed, the score is non-decreasing in      *)
(* download speed, upload speed and signal strength and non-increasing in  *)
(* latency and connected-user count, over every pair of values of the      *)
(* varied field (0 included).                                              *)
C2_Monotone ==
    Scored =>
      /\ \A v \in DownloadSpeeds \ {None} :
            (last_call.data.download_speed # None /\ v >= last_call.data.download_speed)
            => ScoreWith("download_speed", v) >= last_call.result
      /\ \A v \in UploadSpeeds \ {None} :
            (last_call.data.upload_speed # None /\ v >= last_call.data.upload_speed)
            => ScoreWith("upload_speed", v) >= last_call.result
      /\ \A v \in SignalStrengths \ {None} :
            (last_call.data.signal_strength # None /\ v >= last_call.data.signal_strength)
            => ScoreWith("signal_strength", v) >= last_call.result
      /\ \A v \in Latencies \ {None} :
            (last_call.data.latency # None /\ v >= last_call.data.latency)
            => ScoreWith("latency", v) <= last_call.result
      /\ \A v \in ConnectedUsers \ {None} :
            (last_call.data.connected_users # None /\ v >= last_call.data.connected_users)
            => ScoreWith("connected_users", v) <= last_call.result

(* C3: get_status_from_score gives every score in [0, 100] exactly one     *)
(* label: Excellent iff score >= 80, Good iff 60 <= score < 80, Medium iff *)
(* 40 <= score < 60, Poor iff score < 40; exactly 40, 60 and 80 map to     *)
(* Medium, Good and Excellent.                                             *)
C3_StatusBands ==
    last_call.op = "get_status_from_score" =>
      /\ last_call.result \in {"Excellent", "Good", "Medium", "Poor"}
      /\ (last_call.result = "Excellent") <=> (last_call.score >= 8000)
      /\ (last_call.result = "Good") <=> (6000 <= last_call.score /\ last_call.score < 8000)
      /\ (last_call.result = "Medium") <=> (4000 <= last_call.score /\ last_call.score < 6000)
      /\ (last_call.result = "Poor") <=> (last_call.score < 4000)
      /\ (last_call.score = 4000 => last_call.result = "Medium")
      /\ (last_call.score = 6000 => last_call.result = "Good")
      /\ (last_call.score = 8000 => last_call.result = "Excellent")

(* the boundary score 60.00 has been classified *)
C3_Witness ==
    /\ last_call.op = "get_status_from_score"
    /\ last_call.score = 6000
    /\ last_call.result = "Good"

PerfectRecord ==
    [download_speed |-> 100, upload_speed |-> 50, latency |-> 0,
     connected_users |-> 0, signal_strength |-> -30]

(* C4: the record download 100, upload 50, latency 0, connected_users 0,   *)
(* signal_strength -30 is scored 100.00 and classified Excellent.          *)
C4_PerfectRecord ==
    (Scored /\ last_call.data = PerfectRecord)
    => (last_call.result = 10000 /\ get_status_from_score(last_call.result) = "Excellent")

AllDefaultsRecord ==
    [download_speed |-> 0, upload_speed |-> 0, latency |-> None,
     connected_users |-> 0, signal_strength |-> None]

(* C5 as stated: the all-defaults record (download 0, upload 0, latency    *)
(* absent, connected_users 0, signal_strength absent) is scored 24.1 and   *)
(* classified Poor.                                                        *)
C5_Original ==
    (Scored /\ last_call.data = AllDefaultsRecord)
    => (last_call.result = 2410 /\ get_status_from_score(last_call.result) = "Poor")

(* C5 amended: the all-defaults record is scored 25.0 (the default signal  *)
(* strength -80 dBm contributes 0.10 * 50) and classified Poor.            *)
C5_AllDefaults ==
    (Scored /\ last_call.data = AllDefaultsRecord)
    => (last_call.result = 2500 /\ get_status_from_score(last_call.result) = "Poor")

(* the all-defaults record has been scored *)
C5_Witness ==
    /\ Scored
    /\ last_call.data = AllDefaultsRecord
    /\ last_call.result = 2500

(***************************************************************************)
(* Properties of the engine, checked under Spec.  No action changes the    *)
(* store and keeps last_call, so the store of a state whose last_call is a *)
(* query is the store the query read.                                      *)
(***************************************************************************)
Nearby == last_call.op = "get_nearby_access_points"

Current == last_call.op = "get_current_ap_status"

Recommended == last_call.op = "generate_recommendations"

Returned(list, ap_id) == \E k \in DOMAIN list : list[k].id = ap_id

UserDistance(ap) ==
    Distance(last_call.user_lat, last_call.user_lon, ap.latitude, ap.longitude)

(* C6: every candidate returned by get_nearby_access_points lies at a      *)
(* haversine distance from the user that is at most the requested radius   *)
C6_WithinRadius ==
    Nearby =>
        \A k \in DOMAIN last_call.result :
            /\ UserDistance(last_call.result[k]) <= last_call.radius
            /\ last_call.result[k].distance <= last_call.radius

C6_Witness ==
    /\ Nearby
    /\ last_call.result # << >>
    /\ \E i \in DOMAIN access_points :
          /\ access_points[i].latitude # None
          /\ access_points[i].longitude # None
          /\ UserDistance(access_points[i]) > last_call.radius
          /\ ~ Returned(last_call.result, access_points[i].id)

(* C7: an access point with latitude and longitude recorded, 0 included,   *)
(* is in the result of get_nearby_access_points if and only if its         *)
(* distance from the user is at most the radius; with the user at (0, 0)   *)
(* the access point at (0, 0.009) is in the result for radius 1000 m and   *)
(* not for radius 999 m                                                    *)
C7_IncludedIffInRange ==
    Nearby =>
        \A i \in DOMAIN access_points :
            LET ap == access_points[i]
            IN  (ap.latitude # None /\ ap.longitude # None) =>
                    /\ Returned(last_call.result, ap.id)
                           <=> UserDistance(ap) <= last_call.radius
                    /\ ( /\ last_call.user_lat = 0 /\ last_call.user_lon = 0
                         /\ ap.latitude = 0 /\ ap.longitude = 90 ) =>
                           /\ last_call.radius = 100000 => Returned(last_call.result, ap.id)
                           /\ last_call.radius = 99900 => ~ Returned(last_call.result, ap.id)

Unmeasured(ap_id) ==
    \A i \in DOMAIN performance_metrics : performance_metrics[i].ap_id # ap_id

Measured(ap) == ap # NoneAP => ~ Unmeasured(ap.id)

ScoredByDefault(ap) ==
    (ap # NoneAP /\ Unmeasured(ap.id)) =>
        /\ ap.download_speed = None /\ ap.upload_speed = None /\ ap.latency = None
        /\ ap.connected_users = None /\ ap.signal_strength = None
        /\ ap.timestamp = None
        /\ ap.quality_score = 2500
        /\ ap.status = "Poor"

ScanRows(list) == [k \in DOMAIN list |-> JoinRow(list[k], list[k])]

WithScore(list, score) == SelectSeq(list, LAMBDA ap : ap.quality_score = score)

(* C9: the result of get_nearby_access_points is ordered by quality_score, *)
(* non-increasing, and the candidates of one score stand in the order in   *)
(* which the scan of the store produced them                               *)
C9_SortedStable ==
    Nearby =>
        LET result == last_call.result
            scan   == LocatedLatestRows(access_points, performance_metrics)
        IN  /\ \A i, j \in DOMAIN result :
                   i < j => result[i].quality_score >= result[j].quality_score
            /\ \A k \in DOMAIN result :
                   LET tied == ScanRows(WithScore(result, result[k].quality_score))
                   IN  tied = SelectSeq(scan, LAMBDA row : \E t \in DOMAIN tied : tied[t] = row)

C9_Witness ==
    /\ Nearby
    /\ \E i, j \in DOMAIN last_call.result :
          /\ i < j
          /\ last_call.result[i].quality_score = last_call.result[j].quality_score
          /\ last_call.result[i].id < last_call.result[j].id

(* C10: when generate_recommendations resolves a current access point, no  *)
(* recommendation has the id of that access point                          *)
C10_CurrentNotRecommended ==
    Recommended =>
        (last_call.result.current_ap # NoneAP =>
            ~ Returned(last_call.result.recommendations, last_call.result.current_ap.id))

C10_Witness ==
    /\ Recommended
    /\ last_call.result.current_ap # NoneAP
    /\ last_call.result.recommendations # << >>

(* the score-ranked nearby list of the store, without the access point     *)
(* that the last generate_recommendations resolved as current              *)
RankedOthers ==
    LET found == get_nearby_access_points(access_points, performance_metrics,
                                          last_call.user_lat, last_call.user_lon,
                                          last_call.radius)
    IN  IF last_call.result.current_ap = NoneAP THEN found
        ELSE SelectSeq(found, LAMBDA ap : ap.id # last_call.result.current_ap.id)

C12_TotalCountsAll ==
    Recommended =>
        last_call.result.total_nearby_aps =
            Len(get_nearby_access_points(access_points, performance_metrics,
                                         last_call.user_lat, last_call.user_lon,
                                         last_call.radius))

(***************************************************************************)
(* The advice message on its own: a behaviour applies                      *)
(* _generate_advice_message to one current access point (or None) and one  *)
(* list of recommendations.                                                *)
(***************************************************************************)
MaxRecommendations == 2

AdviceScores == {0, 2500, 3500, 3999, 4000, 4500, 5999, 6000, 7000, 10000}

AdviceCandidate(ap_id, ap_name, download_speed, quality_score) ==
    [id |-> ap_id, ap_name |-> ap_name, download_speed |-> download_speed,
     quality_score |-> quality_score, status |-> get_status_from_score(quality_score)]

CurrentCandidates ==
    {NoneAP} \cup { AdviceCandidate(1, "A", 50, score) : score \in AdviceScores }

RecommendationCandidates ==
    { AdviceCandidate(2, "B", download_speed, score) :
          download_speed \in {None, 0, 50}, score \in {2500, 4500, 5999, 7000} }

RecommendationLists ==
    UNION { [1..n -> RecommendationCandidates] : n \in 0..MaxRecommendations }

GenerateAdviceMessage(current_ap, recommendations) ==
    /\ last_call' = [op |-> "_generate_advice_message",
                     current_ap |-> current_ap, recommendations |-> recommendations,
                     result |-> _generate_advice_message(current_ap, recommendations)]
    /\ UNCHANGED << access_points, performance_metrics, now, collector, collectors, requests >>

NextAdvice ==
    /\ last_call = NoCall
    /\ \E current_ap \in CurrentCandidates, recommendations \in RecommendationLists :
          GenerateAdviceMessage(current_ap, recommendations)

SpecAdvice == InitScorer /\ [][NextAdvice]_vars

Advised == last_call.op = "_generate_advice_message"

(* C13: _generate_advice_message returns one message for every input, by   *)
(* the decision table: no current access point; score < 40 with and        *)
(* without recommendations; 40 <= score < 60 with a better first           *)
(* recommendation, with one that is not better, with none; score >= 60     *)
C13_DecisionTable ==
    Advised =>
        LET current_ap == last_call.current_ap
            recommendations == last_call.recommendations
            message == last_call.result
        IN  IF current_ap = NoneAP THEN message = [text |-> "couldn't detect"]
            ELSE /\ message.status = current_ap.status
                 /\ current_ap.quality_score < 4000 =>
                       IF recommendations # << >>
                       THEN /\ message.text = "Best nearby location"
                            /\ message.ap_name = recommendations[1].ap_name
                            /\ message.download_speed =
                                   (IF recommendations[1].download_speed = None THEN 0
                                    ELSE recommendations[1].download_speed)
                       ELSE message.text = "no better options"
                 /\ (current_ap.quality_score >= 4000 /\ current_ap.quality_score < 6000) =>
                       IF recommendations = << >>
                       THEN message.text = "likely the best option"
                       ELSE IF recommendations[1].quality_score > current_ap.quality_score
                            THEN /\ message.text = "could get better performance at"
                                 /\ message.ap_name = recommendations[1].ap_name
                            ELSE message.text = "among the best options"
                 /\ current_ap.quality_score >= 6000 =>
                       message.text = "Enjoy your fast connection"

C13_Witness ==
    /\ Advised
    /\ last_call.current_ap # NoneAP
    /\ last_call.current_ap.quality_score = 3500
    /\ last_call.current_ap.status = "Poor"
    /\ Len(last_call.recommendations) = 1
    /\ last_call.recommendations[1].quality_score = 7000
    /\ last_call.result.text = "Best nearby location"
    /\ last_call.result.download_speed = 50

Located == { i \in DOMAIN access_points :
                access_points[i].latitude # None /\ access_points[i].longitude # None }

UserManhattan(ap) ==
    Abs(ap.latitude - last_call.user_lat) + Abs(ap.longitude - last_call.user_lon)

(* C14: get_current_ap_status looks only at the located access point with  *)
(* the least |latitude - lat| + |longitude - lon|; it returns that one,    *)
(* with distance, quality_score and status, when its haversine distance is *)
(* at most the radius, and None otherwise, whatever else is within radius  *)
C14_ClosestOrNone ==
    (Current /\ Located # {}) =>
        \E i \in Located :
            LET ap == access_points[i]
            IN  /\ \A j \in Located : UserManhattan(ap) <= UserManhattan(access_points[j])
                /\ IF UserDistance(ap) <= last_call.radius
                   THEN /\ last_call.result # NoneAP
                        /\ last_call.result.id = ap.id
                        /\ last_call.result.distance = UserDistance(ap)
                        /\ last_call.result.status =
                               get_status_from_score(last_call.result.quality_score)
                   ELSE last_call.result = NoneAP

Trend == last_call.op = "get_trend_analysis"

(* the metric rows of the access point of the last get_trend_analysis      *)
(* whose timestamp (seconds) lies in the hours_back hours before the call; *)
(* rows are stored in the order of their timestamps                        *)
TrendWindow ==
    SelectSeq(performance_metrics,
              LAMBDA m : /\ m.ap_id = last_call.ap_id
                         /\ m.timestamp <= last_call.at
                         /\ m.timestamp >= last_call.at - last_call.hours_back * 3600)

(* C15: get_trend_analysis raises nothing and returns the metric records   *)
(* of the access point within the last hours_back hours, oldest first,     *)
(* each with its quality_score; an empty list when there is none           *)
C15_TrendReturnsWindow ==
    Trend =>
        /\ last_call.raised = "none"
        /\ Len(last_call.result) = Len(TrendWindow)
        /\ \A k \in DOMAIN last_call.result :
              /\ last_call.result[k].timestamp = TrendWindow[k].timestamp
              /\ last_call.result[k].download_speed = TrendWindow[k].download_speed
              /\ last_call.result[k].quality_score = calculate_quality_score(TrendWindow[k])

(* the last call was given a negative radius, a negative limit, or a       *)
(* position outside latitude [-90, 90], longitude [-180, 180]              *)
InvalidInput ==
    \/ last_call.radius < 0
    \/ Recommended /\ last_call.num_recommendations < 0
    \/ Abs(last_call.user_lat) > 900000
    \/ Abs(last_call.user_lon) > 1800000

(* C16: get_nearby_access_points and generate_recommendations reject a     *)
(* negative radius, a negative limit and coordinates out of range: such a  *)
(* call returns no result                                                  *)
C16_InvalidInputRejected ==
    ((Nearby \/ Recommended) /\ InvalidInput) => "result" \notin DOMAIN last_call

(***************************************************************************)
(* generate_recommendations beside the submissions of app.py.  The engine  *)
(* opens one connection for get_current_ap_status and another one for      *)
(* get_nearby_access_points; a POST /api/performance-metrics can commit    *)
(* between the two.  While a call is between its two reads, last_call      *)
(* holds what it has read and `during`, the store contents that existed    *)
(* since the call began.                                                   *)
(***************************************************************************)
Reading == last_call.op = "generate_recommendations (between reads)"

Store == [access_points |-> access_points, performance_metrics |-> performance_metrics]

(* line 184: current_ap = self.get_current_ap_status(user_lat, user_lon) *)
ReadCurrentAp(user_lat, user_lon, radius, num_recommendations) ==
    /\ ~ Reading
    /\ last_call' = [op |-> "generate_recommendations (between reads)",
                     user_lat |-> user_lat, user_lon |-> user_lon, radius |-> radius,
                     num_recommendations |-> num_recommendations,
                     current_ap |-> get_current_ap_status(access_points, performance_metrics,
                                                          user_lat, user_lon,
                                                          DefaultCurrentRadius),
                     during |-> << Store >>]
    /\ UNCHANGED << access_points, performance_metrics, now, collector, collectors, requests >>

(* app.submit_performance_metrics, committed while the call is between its *)
(* reads                                                                   *)
SubmitDuringCall(ap, data) ==
    LET known  == { i \in DOMAIN access_points : access_points[i].ap_name = ap.ap_name }
        table  == IF known = {}
                  THEN Append(access_points, WithId(ap, 1, Len(access_points) + 1))
                  ELSE access_points
        ap_id  == (CHOOSE row \in { table[i] : i \in DOMAIN table } :
                       row.ap_name = ap.ap_name).id
        metrics == Append(performance_metrics,
                          [id |-> Len(performance_metrics) + 1, ap_id |-> ap_id,
                           download_speed |-> data.download_speed,
                           upload_speed |-> data.upload_speed,
                           latency |-> data.latency,
                           connected_users |-> data.connected_users,
                           signal_strength |-> data.signal_strength,
                           timestamp |-> now])
    IN  /\ Reading
        /\ Len(table) + Len(performance_metrics) < MaxRows
        /\ access_points' = table
        /\ performance_metrics' = metrics
        /\ last_call' = [last_call EXCEPT
                            !.during = Append(@, [access_points |-> table,
                                                  performance_metrics |-> metrics])]
        /\ UNCHANGED << now, collector, collectors, requests >>

(* lines 187 to 208: the nearby list is read, filtered and sliced, and the *)
(* summary is built                                                        *)
RecommendationSummary(current_ap, found, user_lat, user_lon, num_recommendations) ==
    [user_location |-> [latitude |-> user_lat, longitude |-> user_lon],
     current_ap |-> current_ap,
     recommendations |->
         Take(SelectSeq(found, LAMBDA ap : current_ap = NoneAP \/ ap.id # current_ap.id),
              num_recommendations),
     total_nearby_aps |->
         Len(SelectSeq(found, LAMBDA ap : current_ap = NoneAP \/ ap.id # current_ap.id)),
     message |->
         _generate_advice_message(
             current_ap,
             Take(SelectSeq(found, LAMBDA ap : current_ap = NoneAP \/ ap.id # current_ap.id),
                  num_recommendations))]

ReadNearbyAndReturn ==
    /\ Reading
    /\ last_call' = [op |-> "generate_recommendations",
                     user_lat |-> last_call.user_lat, user_lon |-> last_call.user_lon,
                     radius |-> last_call.radius,
                     num_recommendations |-> last_call.num_recommendations,
                     during |-> last_call.during,
                     result |-> RecommendationSummary(
                                    last_call.current_ap,
                                    get_nearby_access_points(access_points, performance_metrics,
                                                             last_call.user_lat,
                                                             last_call.user_lon,
                                                             last_call.radius),
                                    last_call.user_lat, last_call.user_lon,
                                    last_call.num_recommendations)]
    /\ UNCHANGED << access_points, performance_metrics, now, collector, collectors, requests >>

NextConcurrent ==
    \/ \E q \in RecommendationQueries : ReadCurrentAp(q[1], q[2], q[3], q[4])
    \/ \E ap \in AccessPointData, data \in MetricData : SubmitDuringCall(ap, data)
    \/ ReadNearbyAndReturn

SpecConcurrent == Init /\ [][NextConcurrent]_vars

(* C17: the result of a generate_recommendations that submissions          *)
(* interleave with is the result of generate_recommendations on one store  *)
(* content that existed during the call, and the access point that is      *)
(* current on that content is not among the recommendations                *)
C17_ResultOfOneSnapshot ==
    (Recommended /\ "during" \in DOMAIN last_call) =>
        \E k \in DOMAIN last_call.during :
            LET snapshot == last_call.during[k]
                current  == get_current_ap_status(snapshot.access_points,
                                                  snapshot.performance_metrics,
                                                  last_call.user_lat, last_call.user_lon,
                                                  DefaultCurrentRadius)
            IN  /\ last_call.result =
                       generate_recommendations(snapshot.access_points,
                                                snapshot.performance_metrics,
                                                last_call.user_lat, last_call.user_lon,
                                                last_call.radius,
                                                last_call.num_recommendations)
                /\ current # NoneAP =>
                       ~ Returned(last_call.result.recommendations, current.id)

QueryOps ==
    { "get_nearby_access_points", "get_current_ap_status",
      "generate_recommendations", "get_trend_analysis" }

(* the arguments of a recorded query *)
Arguments(call) ==
    IF call.op = "get_trend_analysis" THEN << call.ap_id, call.hours_back >>
    ELSE IF call.op = "generate_recommendations"
         THEN << call.user_lat, call.user_lon, call.radius, call.num_recommendations >>
         ELSE << call.user_lat, call.user_lon, call.radius >>

(* what a recorded query gave its caller *)
Outcome(call) ==
    IF "result" \in DOMAIN call THEN [returned |-> call.result]
    ELSE [raised |-> call.raised]

(* C18: a step of get_nearby_access_points, get_current_ap_status,         *)
(* generate_recommendations or get_trend_analysis leaves both tables as    *)
(* they were, and a query that follows the same query with the same        *)
(* arguments, no submission between them, gives the same outcome           *)
C18_QueriesLeaveStore ==
    [][ ( /\ last_call'.op \in QueryOps
          /\ (last_call'.op # last_call.op \/ last_call' # last_call) ) =>
            /\ UNCHANGED << access_points, performance_metrics >>
            /\ ( /\ last_call.op = last_call'.op
                 /\ Arguments(last_call) = Arguments(last_call') ) =>
                   Outcome(last_call') = Outcome(last_call) ]_vars

C18_Witness ==
    /\ Current
    /\ last_call.result # NoneAP
    /\ performance_metrics # << >>
    /\ Len(access_points) >= 2

Listed == last_call.op = "get_access_points"

(* the rows of a list that are about the access point ap_id *)
RowsOf(list, ap_id) == { k \in DOMAIN list : list[k].id = ap_id }

(* a list with at most one row per access point, each row carrying the     *)
(* latest timestamp recorded for its access point                          *)
OneLatestRowEach(list) ==
    \A k \in DOMAIN list :
        /\ RowsOf(list, list[k].id) = {k}
        /\ (\E i \in DOMAIN performance_metrics :
                performance_metrics[i].ap_id = list[k].id) =>
               list[k].timestamp = MaxTimestamp(performance_metrics, list[k].id)

(* C19: whatever was submitted, several submissions for one access point   *)
(* at the same timestamp included, the lists of get_nearby_access_points   *)
(* and of GET /api/access-points hold at most one row per access point,    *)
(* and that row carries the maximum timestamp of its access point          *)
C19_OneLatestRowPerAp ==
    /\ Nearby => OneLatestRowEach(last_call.result)
    /\ Listed => OneLatestRowEach(last_call.body)

Submitted == last_call.op = "submit_performance_metrics"

(* the ids of the rows of a table that carry the name *)
IdsOf(table, ap_name) ==
    { table[i].id : i \in { j \in DOMAIN table : table[j].ap_name = ap_name } }

(* the step is an answered POST /api/performance-metrics *)
SubmitStep ==
    /\ last_call'.op = "submit_performance_metrics"
    /\ \/ ~ Submitted
       \/ last_call' # last_call
       \/ performance_metrics' # performance_metrics

(* the step is an answered GET /api/access-points *)
ListStep ==
    /\ last_call'.op = "get_access_points"
    /\ UNCHANGED << access_points, performance_metrics >>

(* 201 with the id of the access point of the name, which is created if    *)
(* and only if the name was unknown, and one more metric row, of that id   *)
SubmitAnswer ==
    /\ last_call'.status = 201
    /\ IdsOf(access_points', last_call'.ap_name) = { last_call'.ap_id }
    /\ IF IdsOf(access_points, last_call'.ap_name) = {}
       THEN /\ Len(access_points') = Len(access_points) + 1
            /\ SubSeq(access_points', 1, Len(access_points)) = access_points
       ELSE access_points' = access_points
    /\ Len(performance_metrics') = Len(performance_metrics) + 1
    /\ SubSeq(performance_metrics', 1, Len(performance_metrics)) = performance_metrics
    /\ performance_metrics'[Len(performance_metrics')].ap_id = last_call'.ap_id

(* 200 with every access point of the table in the list, each row with a   *)
(* quality_score and a status                                              *)
ListAnswer ==
    /\ last_call'.status = 200
    /\ \A i \in DOMAIN access_points :
          \E k \in DOMAIN last_call'.body : last_call'.body[k].id = access_points[i].id
    /\ \A k \in DOMAIN last_call'.body :
          /\ { "quality_score", "status" } \subseteq DOMAIN last_call'.body[k]
          /\ last_call'.body[k].quality_score \in 0..MaxScore
          /\ last_call'.body[k].status \in { "Excellent", "Good", "Medium", "Poor" }

(* C20: every POST /api/performance-metrics that carries an ap_name is     *)
(* answered 201 with the id of the access point of that name, creates the  *)
(* access point if and only if the name was unknown and appends exactly    *)
(* one metric row of that id; every later GET /api/access-points is        *)
(* answered 200 and lists the access point with quality_score and status   *)
C20_SubmitThenList ==
    [][ /\ SubmitStep => SubmitAnswer
        /\ ListStep => ListAnswer ]_vars

(***************************************************************************)
(* The store under init_db and the submissions: SpecStore.                 *)
(***************************************************************************)

(* how many entries of sample_ap_data the model inserts *)
MaxSamples == 1

(* app.init_db, sample_ap_data: ap_name with its coordinates (1e-4 degree) *)
sample_ap_data ==
    SubSeq(<< [ap_name |-> "MH1-WiFi", latitude |-> 377749, longitude |-> -1224194],
              [ap_name |-> "MH2-WiFi", latitude |-> 377750, longitude |-> -1224195],
              [ap_name |-> "MH3-WiFi", latitude |-> 377751, longitude |-> -1224193] >>,
           1, MaxSamples)

(* the measurements init_db draws with random.uniform and random.randint:  *)
(* both ends of the ranges                                                 *)
SampleMetricData ==
    { [download_speed |-> 30, upload_speed |-> 10, latency |-> 10000,
       connected_users |-> 10, signal_strength |-> -85],
      [download_speed |-> 120, upload_speed |-> 35, latency |-> 60000,
       connected_users |-> 80, signal_strength |-> -35] }

(* the sample rows: row k of access_points and its row of metrics, with    *)
(* ap_id = cursor.lastrowid                                                *)
SampleMetrics(draw) ==
    [k \in DOMAIN sample_ap_data |->
        [id |-> k, ap_id |-> k,
         download_speed |-> draw[k].download_speed,
         upload_speed |-> draw[k].upload_speed,
         latency |-> draw[k].latency,
         connected_users |-> draw[k].connected_users,
         signal_strength |-> draw[k].signal_strength,
         timestamp |-> now]]

(* app.init_db: CREATE TABLE IF NOT EXISTS leaves existing tables alone;   *)
(* the samples are inserted when access_points holds no row                *)
InitDb ==
    /\ IF Len(access_points) = 0
       THEN /\ performance_metrics = << >>
            /\ access_points' =
                   [k \in DOMAIN sample_ap_data |-> WithId(sample_ap_data[k], 1, k)]
            /\ \E draw \in [DOMAIN sample_ap_data -> SampleMetricData] :
                   performance_metrics' = SampleMetrics(draw)
       ELSE UNCHANGED << access_points, performance_metrics >>
    /\ last_call' = [op |-> "init_db"]
    /\ UNCHANGED << now, collector, collectors, requests >>

(* app.py:13-23: collector.py defines no WiFiDataCollector, the import    *)
(* fails and the class is the one of the except branch, whose __init__     *)
(* sets no attribute.  An object is held as the record of its attributes   *)
(* and of `started`: start_collection has been called on it and            *)
(* stop_collection has not (both methods only print)                       *)
WiFiDataCollector == [started |-> FALSE]

(* the attribute access obj.name *)
GetAttr(obj, name) ==
    IF name \in DOMAIN obj \ { "started" }
    THEN [raised |-> "none", value |-> obj[name]]
    ELSE [raised |-> "AttributeError"]

(* `collector is None or not collector.is_collecting` (line 658),          *)
(* `collector and collector.is_collecting` (line 688) and `collector is    *)
(* not None and collector.is_collecting` (line 703): the attribute is read *)
(* only when collector is an object                                        *)
IsCollecting(c, objects) ==
    IF c = None THEN [raised |-> "none", value |-> FALSE]
    ELSE GetAttr(objects[c], "is_collecting")

(* the intervals a start request carries; None: no 'interval' in the body *)
Intervals == { None, 30 }

(* app.start_data_collection: POST /api/start-collection *)
StartDataCollection(interval) ==
    /\ \A t \in Threads : requests[t] = Idle
    /\ IF IsCollecting(collector, collectors).raised # "none"
       THEN /\ last_call' = [op |-> "start_data_collection", status |-> 500]
            /\ UNCHANGED << collector, collectors >>
       ELSE IF ~ IsCollecting(collector, collectors).value
            THEN /\ collectors' = Append(collectors, [WiFiDataCollector EXCEPT !.started = TRUE])
                 /\ collector' = Len(collectors) + 1
                 /\ last_call' = [op |-> "start_data_collection", status |-> 200,
                                  interval |-> IF interval = None THEN 60 ELSE interval]
            ELSE /\ last_call' = [op |-> "start_data_collection", status |-> 400]
                 /\ UNCHANGED << collector, collectors >>
    /\ UNCHANGED << access_points, performance_metrics, now, requests >>

(* a stop handler that stops every started collector *)
StopDataCollection_all ==
    /\ IF collector = None
       THEN /\ last_call' = [op |-> "stop_data_collection", status |-> 400]
            /\ UNCHANGED << collector, collectors >>
       ELSE /\ collectors' = [k \in DOMAIN collectors |-> [collectors[k] EXCEPT !.started = FALSE]]
            /\ collector' = None
            /\ last_call' = [op |-> "stop_data_collection", status |-> 200]
    /\ UNCHANGED << access_points, performance_metrics, now, requests >>

(* app.stop_data_collection: POST /api/stop-collection *)
StopDataCollection ==
    /\ IF IsCollecting(collector, collectors).raised # "none"
       THEN /\ last_call' = [op |-> "stop_data_collection", status |-> 500]
            /\ UNCHANGED << collector, collectors >>
       ELSE IF IsCollecting(collector, collectors).value
            THEN /\ collectors' = [collectors EXCEPT ![collector].started = FALSE]
                 /\ collector' = None
                 /\ last_call' = [op |-> "stop_data_collection", status |-> 200]
            ELSE /\ last_call' = [op |-> "stop_data_collection", status |-> 400]
                 /\ UNCHANGED << collector, collectors >>
    /\ UNCHANGED << access_points, performance_metrics, now, requests >>

(* app.get_collection_status: GET /api/collection-status *)
GetCollectionStatus ==
    /\ last_call' =
           IF IsCollecting(collector, collectors).raised # "none"
           THEN [op |-> "get_collection_status", status |-> 500]
           ELSE [op |-> "get_collection_status", status |-> 200,
                 is_collecting |-> IsCollecting(collector, collectors).value]
    /\ UNCHANGED << access_points, performance_metrics, now,
                    collector, collectors, requests >>

NextStore ==
    \/ Tick
    \/ InitDb
    \/ \E ap \in AccessPointData, building \in Buildings, data \in MetricData :
          SubmitPerformanceMetrics(ap, building, data)
    \/ GetAccessPoints
    \/ \E interval \in Intervals : StartDataCollection(interval)
    \/ StopDataCollection
    \/ GetCollectionStatus

SpecStore == Init /\ [][NextStore]_vars

(* no two rows of access_points carry the same ap_name *)
UniqueNames ==
    \A i, j \in DOMAIN access_points :
        access_points[i].ap_name = access_points[j].ap_name => i = j

(* every name of the table keeps its id in the step *)
IdsKept ==
    \A i \in DOMAIN access_points :
        IdsOf(access_points', access_points[i].ap_name) = { access_points[i].id }

(* C21: whatever init_db calls and submissions have happened, no two       *)
(* access-point rows share an ap_name, and the id that goes with an        *)
(* ap_name is never changed by a later step                                *)
C21_NamesUniqueIdsKept ==
    /\ [] UniqueNames
    /\ [][IdsKept]_vars

(* a submission for a name that was known already, in a table of several   *)
(* names                                                                   *)
C21_Witness ==
    /\ Submitted
    /\ last_call.status = 201
    /\ last_call.ap_id < Len(access_points)
    /\ UniqueNames

(***************************************************************************)
(* The three copies of the scoring formula: SpecCopies.                    *)
(***************************************************************************)

(* the float nan, which pandas puts where a numeric column holds a null *)
NaN == -999999998

(* Python's min(a, b) and max(a, b): a, unless b compares below (above)    *)
(* it; every comparison with nan is false                                  *)
PyMin(a, b) == IF a = NaN \/ b = NaN THEN a ELSE Min(a, b)
PyMax(a, b) == IF a = NaN \/ b = NaN THEN a ELSE Max(a, b)

(* float arithmetic: nan in, nan out *)
Times(x, k) == IF x = NaN THEN NaN ELSE x * k
Minus(a, x) == IF x = NaN THEN NaN ELSE a - x
Plus(a, x) == IF x = NaN THEN NaN ELSE a + x
Weighted(d, u, l, c, s) ==
    IF NaN \in {d, u, l, c, s} THEN NaN
    ELSE Round2(35 * d + 15 * u + 20 * l + 20 * c + 10 * s)

(* WiFiAnalyzer.calculate_quality_scores, calculate_single_score(row) *)
calculate_single_score(row) ==
    Weighted(PyMin(Times(OrDefault(row.download_speed, 0), 100), 10000),
             PyMin(Times(OrDefault(row.upload_speed, 0), 200), 10000),
             PyMax(Times(Minus(1000, PyMin(OrDefault(row.latency, Inf), 1000)), 10), 0),
             PyMax(Minus(10000, Times(PyMin(OrDefault(row.connected_users, 0), 50), 150)), 0),
             PyMax(0, PyMin(10000, Times(Plus(130, OrDefault(row.signal_strength, -80)), 100))))

PerformanceFields ==
    { "download_speed", "upload_speed", "latency", "connected_users", "signal_strength" }

(* WiFiAnalyzer.load_data, pd.read_sql_query: a column that holds numbers  *)
(* becomes a float column with nan for its nulls; a column of nulls only   *)
(* keeps None                                                              *)
read_sql_query(rows) ==
    [k \in DOMAIN rows |->
        [f \in PerformanceFields |->
            IF rows[k][f] = None /\ \E j \in DOMAIN rows : rows[j][f] # None
            THEN NaN ELSE rows[k][f]]]

(* WiFiAnalyzer.calculate_quality_scores: df.apply(..., axis=1) *)
calculate_quality_scores(df) ==
    [k \in DOMAIN df |-> calculate_single_score(df[k])]

(* the rows a frame is loaded from: 45.00 points, each field there or null *)
MaxFrameRows == 2
FrameRecords ==
    [ download_speed  : {None, 50},
      upload_speed    : {None, 25},
      latency         : {None, 500},
      connected_users : {None, 50},
      signal_strength : {None, -80} ]
Frames == UNION { [1..n -> FrameRecords] : n \in 1..MaxFrameRows }

CalculateQualityScores(rows) ==
    /\ last_call' = [op |-> "calculate_quality_scores", rows |-> rows,
                     result |-> calculate_quality_scores(read_sql_query(rows))]
    /\ UNCHANGED << access_points, performance_metrics, now, collector, collectors, requests >>

AppCalculateQualityScore(data) ==
    /\ last_call' = [op |-> "app.calculate_quality_score", data |-> data,
                     result |-> app_calculate_quality_score(data)]
    /\ UNCHANGED << access_points, performance_metrics, now, collector, collectors, requests >>

NextCopies ==
    /\ last_call = NoCall
    /\ \/ \E rows \in Frames : CalculateQualityScores(rows)
       \/ \E data \in FrameRecords : AppCalculateQualityScore(data)

SpecCopies == InitScorer /\ [][NextCopies]_vars

(* C22: the engine's scorer, the app's scorer and the analyzer's per-row   *)
(* function give the same score for every metric record, records with      *)
(* null fields included                                                    *)
C22_CopiesAgree ==
    /\ last_call.op = "app.calculate_quality_score" =>
           last_call.result = calculate_quality_score(last_call.data)
    /\ last_call.op = "calculate_quality_scores" =>
           \A k \in DOMAIN last_call.rows :
               last_call.result[k] = calculate_quality_score(last_call.rows[k])

(***************************************************************************)
(* haversine_distance on its own: SpecHaversine.                           *)
(***************************************************************************)

(* the points (1e-4 degree) the distance is taken between: the origin, one *)
(* degree east of it, the access points and users of the model, two sample *)
(* access points, both poles and two points half the globe apart           *)
HaversinePoints ==
    { << 0, 0 >>, << 0, 10000 >>, << 10, 10 >>, << 13, 13 >>, << 15, 10 >>,
      << 0, 90 >>, << 377749, -1224194 >>, << 377750, -1224195 >>,
      << 900000, 0 >>, << -900000, 0 >>, << -337, 580000 >>, << 450001, -600000 >> }

HaversineDistance(p, q) ==
    /\ last_call' = [op |-> "haversine_distance",
                     lat1 |-> p[1], lon1 |-> p[2], lat2 |-> q[1], lon2 |-> q[2],
                     result |-> haversine_distance(p[1], p[2], q[1], q[2])]
    /\ UNCHANGED << access_points, performance_metrics, now, collector, collectors, requests >>

NextHaversine ==
    /\ last_call = NoCall
    /\ \E p \in HaversinePoints, q \in HaversinePoints : HaversineDistance(p, q)

SpecHaversine == InitScorer /\ [][NextHaversine]_vars

Measured2 == last_call.op = "haversine_distance"

(* C23: the distance from A to B is the distance from B to A, the distance *)
(* from a point to itself is 0, and the distance between (0, 0) and (0, 1) *)
(* is within 1% of 111,195 m (11119500 cm)                                 *)
C23_SymmetricZeroOneDegree ==
    Measured2 =>
        /\ last_call.result = haversine_distance(last_call.lat2, last_call.lon2,
                                                 last_call.lat1, last_call.lon1)
        /\ (last_call.lat1 = last_call.lat2 /\ last_call.lon1 = last_call.lon2) =>
               last_call.result = 0
        /\ ( << last_call.lat1, last_call.lon1, last_call.lat2, last_call.lon2 >>
                 = << 0, 0, 0, 10000 >> ) =>
               Abs(last_call.result - 11119500) * 100 <= 11119500

(* the distance from (0, 1) to (0, 0) has been taken *)
C23_Witness ==
    /\ Measured2
    /\ << last_call.lat1, last_call.lon1, last_call.lat2, last_call.lon2 >> = << 0, 10000, 0, 0 >>
    /\ last_call.result > 0

(***************************************************************************)
(* GET /api/recommendations on stores of more rows than its LIMIT:         *)
(* SpecTop.                                                                *)
(***************************************************************************)

(* LIMIT 5 of app.get_recommendations *)
RecommendationsLimit == 5

(* ORDER BY pm.download_speed DESC: NULL sorts below every number; rows of *)
(* equal download_speed are left in the order of the scan                  *)
OrderByDownloadDesc(rows) ==
    LET Before(i, j) ==
            \/ rows[i].download_speed > rows[j].download_speed
            \/ /\ rows[i].download_speed = rows[j].download_speed
               /\ i < j
        Rank(i) == Cardinality({ j \in DOMAIN rows : Before(j, i) }) + 1
    IN  [p \in DOMAIN rows |-> rows[CHOOSE i \in DOMAIN rows : Rank(i) = p]]

(* app.get_recommendations: GET /api/recommendations; latitude, longitude  *)
(* and radius are read from the request and not used                       *)
get_recommendations(aps, pms) ==
    [status |-> 200,
     body   |-> LET rows == Take(OrderByDownloadDesc(LeftJoin(aps, LatestMetrics(pms))),
                                 RecommendationsLimit)
                IN  [i \in DOMAIN rows |->
                        WithQuality(rows[i], app_calculate_quality_score(rows[i]))]]

GetRecommendations ==
    /\ last_call' = [op |-> "get_recommendations"]
                    @@ get_recommendations(access_points, performance_metrics)
    /\ UNCHANGED << access_points, performance_metrics, now, collector, collectors, requests >>

(* the stores of SpecTop: up to MaxTopRows access points, each with one    *)
(* row of metrics, all of the same second, as init_db leaves them          *)
MaxTopRows == 6
TopNames == << "AP1", "AP2", "AP3", "AP4", "AP5", "AP6", "AP7", "AP8" >>

(* 44.00 points with the highest download speed, 96.30 points with a lower *)
(* one, and 25.00 points with none                                         *)
TopMetricData ==
    { [download_speed |-> 100, upload_speed |-> 0, latency |-> 1000,
       connected_users |-> 50, signal_strength |-> -90],
      [download_speed |-> 90, upload_speed |-> 50, latency |-> 10,
       connected_users |-> 0, signal_strength |-> -30],
      [download_speed |-> None, upload_speed |-> None, latency |-> None,
       connected_users |-> None, signal_strength |-> None] }

InitTop ==
    /\ \E n \in 0..MaxTopRows : \E draw \in [1..n -> TopMetricData] :
          /\ access_points =
                 [k \in 1..n |-> WithId([ap_name |-> TopNames[k], latitude |-> 377749 + k,
                                         longitude |-> -1224194 - k], 1, k)]
          /\ performance_metrics =
                 [k \in 1..n |-> [id |-> k, ap_id |-> k,
                                  download_speed |-> draw[k].download_speed,
                                  upload_speed |-> draw[k].upload_speed,
                                  latency |-> draw[k].latency,
                                  connected_users |-> draw[k].connected_users,
                                  signal_strength |-> draw[k].signal_strength,
                                  timestamp |-> 0]]
    /\ now = 0
    /\ last_call = NoCall
    /\ NoCollection

NextTop ==
    \/ GetRecommendations
    \/ GetAccessPoints

SpecTop == InitTop /\ [][NextTop]_vars

TopListed == last_call.op = "get_recommendations"

(* every access point of the store with its latest metrics *)
StoreRows == LeftJoin(access_points, LatestMetrics(performance_metrics))

(* C24: GET /api/recommendations returns at most 5 access points, and no   *)
(* access point left out of the response has a strictly higher             *)
(* quality_score than one that is in it                                    *)
C24_TopFiveByScore ==
    TopListed =>
        /\ Len(last_call.body) <= 5
        /\ \A i \in DOMAIN StoreRows :
               ~ Returned(last_call.body, StoreRows[i].id) =>
                   \A k \in DOMAIN last_call.body :
                       app_calculate_quality_score(StoreRows[i])
                           <= last_call.body[k].quality_score

(* a collector is collecting: the global names an object that was started  *)
(* and not stopped                                                         *)
Collecting == collector # None /\ collectors[collector].started

StartStep ==
    /\ last_call'.op = "start_data_collection"
    /\ \/ last_call.op # "start_data_collection"
       \/ last_call' # last_call
       \/ collector' # collector

StopStep ==
    /\ last_call'.op = "stop_data_collection"
    /\ \/ last_call.op # "stop_data_collection"
       \/ last_call' # last_call
       \/ collector' # collector

(* 200 and a new collector when none is collecting, else 400 'already      *)
(* running' and the collector that was there                               *)
StartAnswer ==
    IF ~ Collecting
    THEN /\ last_call'.status = 200
         /\ collector' \in DOMAIN collectors' \ DOMAIN collectors
         /\ collectors'[collector'].started
    ELSE /\ last_call'.status = 400
         /\ UNCHANGED << collector, collectors >>

(* 200 and no collector when one is collecting, else 400 'not running' *)
StopAnswer ==
    IF Collecting
    THEN /\ last_call'.status = 200
         /\ collector' = None
    ELSE /\ last_call'.status = 400
         /\ UNCHANGED << collector, collectors >>

(* C25: in every sequence of start-collection and stop-collection          *)
(* requests, a start is answered 200 and installs a new collector if and   *)
(* only if no collector is collecting, otherwise 400 with the collector    *)
(* left in place; a stop is answered 200 and resets the global collector   *)
(* to None if and only if a collector is collecting, otherwise 400         *)
C25_StartStopProtocol ==
    [][ /\ StartStep => StartAnswer
        /\ StopStep => StopAnswer ]_vars

(* C26: GET /api/collection-status always succeeds, and reports            *)
(* is_collecting = true exactly between a successful start-collection and  *)
(* the next successful stop-collection, with the fallback collector class  *)
(* as well                                                                 *)
C26_StatusReportsCollecting ==
    last_call.op = "get_collection_status" =>
        /\ last_call.status = 200
        /\ last_call.is_collecting = Collecting

(* the engine's and the app's score of a record *)
BothScores(data) == << calculate_quality_score(data), app_calculate_quality_score(data) >>

(* C27: calculate_quality_score, in the engine and in the app, treats a    *)
(* field of exactly 0 as an absent one: a latency of 0 is scored as the    *)
(* worst latency (as a latency of 1 or more), a signal strength of 0 as    *)
(* -80 dBm, and putting null for a 0 in any field leaves the score as it   *)
(* is                                                                      *)
C27_ZeroAsAbsent ==
    Scored =>
        /\ last_call.result = calculate_quality_score(last_call.data)
        /\ \A f \in PerformanceFields :
               last_call.data[f] = 0 =>
                   BothScores([last_call.data EXCEPT ![f] = None])
                       = << last_call.result, last_call.result >>
        /\ last_call.data.latency = 0 =>
               /\ BothScores([last_call.data EXCEPT !.latency = 1000])
                      = << last_call.result, last_call.result >>
               /\ BothScores([last_call.data EXCEPT !.latency = 2000])
                      = << last_call.result, last_call.result >>
        /\ last_call.data.signal_strength = 0 =>
               BothScores([last_call.data EXCEPT !.signal_strength = -80])
                   = << last_call.result, last_call.result >>

(* a record with latency 0 and signal strength 0 has been scored *)
C27_Witness ==
    /\ Scored
    /\ last_call.data.latency = 0
    /\ last_call.data.signal_strength = 0
    /\ last_call.data.download_speed = 100

(* every row of access_points is after the step what it was before *)
RowsKept ==
    \A i \in DOMAIN access_points :
        /\ i \in DOMAIN access_points'
        /\ access_points'[i] = access_points[i]

(* the names that the table holds without a latitude or a longitude *)
UnlocatedNames ==
    { access_points[i].ap_name :
        i \in { j \in DOMAIN access_points :
                  access_points[j].latitude = None \/ access_points[j].longitude = None } }

(* C28: a submission for an ap_name that exists leaves the stored          *)
(* building and coordinates of that access point (and of every other) as   *)
(* they were, whatever the submission carries; so an access point stored   *)
(* without coordinates is in no result of get_nearby_access_points,        *)
(* whatever was submitted since                                            *)
C28_KnownAccessPointKept ==
    /\ [][RowsKept]_vars
    /\ [](Nearby => \A k \in DOMAIN last_call.result :
                        last_call.result[k].ap_name \notin UnlocatedNames)

(* a submission with coordinates and another building for an access point  *)
(* that is stored without coordinates                                      *)
C28_Witness ==
    /\ Submitted
    /\ last_call.status = 201
    /\ last_call.latitude # None
    /\ last_call.building # None
    /\ last_call.ap_name \in UnlocatedNames
    /\ access_points[last_call.ap_id].building # last_call.building

(* the recommendations with another score for the first of them *)
FirstScored(recommendations, score) ==
    [recommendations EXCEPT ![1] =
        AdviceCandidate(@.id, @.ap_name, @.download_speed, score)]

(* C29: with a current score below 40 and a non-empty list,                *)
(* _generate_advice_message names recommendations[0] as the best nearby    *)
(* location whatever its score is: the message is the same for every score *)
(* of that access point, scores at and below the current score included    *)
C29_BestNamedUncompared ==
    ( /\ Advised
      /\ last_call.current_ap # NoneAP
      /\ last_call.current_ap.quality_score < 4000
      /\ last_call.recommendations # << >> ) =>
        /\ last_call.result.text = "Best nearby location"
        /\ last_call.result.ap_name = last_call.recommendations[1].ap_name
        /\ \A score \in AdviceScores :
               _generate_advice_message(last_call.current_ap,
                                        FirstScored(last_call.recommendations, score))
                   = last_call.result

(* an access point of a lower score than the current one has been named *)
C29_Witness ==
    /\ Advised
    /\ last_call.current_ap # NoneAP
    /\ last_call.current_ap.quality_score < 4000
    /\ last_call.recommendations # << >>
    /\ last_call.recommendations[1].quality_score < last_call.current_ap.quality_score
    /\ last_call.result.text = "Best nearby location"

(* ------------------------------------------------------------------------ *)
(* start_data_collection served by several threads: the handler reads the   *)
(* global at line 658, writes it at line 670 and reads it again at line     *)
(* 672, and another request may run between any two of these                *)
(* ------------------------------------------------------------------------ *)

(* a POST /api/start-collection arrives at an idle thread *)
StartRequest(t, interval) ==
    /\ requests[t] = Idle
    /\ requests' = [requests EXCEPT ![t] = [at |-> "check", interval |-> interval]]
    /\ UNCHANGED << access_points, performance_metrics, now, last_call,
                    collector, collectors >>

(* line 658: `if collector is None or not collector.is_collecting`; the    *)
(* AttributeError is answered 500 (lines 679-681), a collecting collector  *)
(* 400 (line 678)                                                          *)
StartCheck(t) ==
    /\ requests[t].at = "check"
    /\ requests' = [requests EXCEPT ![t] =
           IF IsCollecting(collector, collectors).raised # "none"
           THEN [at |-> "answered", status |-> 500]
           ELSE IF ~ IsCollecting(collector, collectors).value
                THEN [at |-> "assign", interval |-> @.interval]
                ELSE [at |-> "answered", status |-> 400]]
    /\ UNCHANGED << access_points, performance_metrics, now, last_call,
                    collector, collectors >>

(* line 670: `collector = WiFiDataCollector(api_base_url=api_base_url)` *)
StartAssign(t) ==
    /\ requests[t].at = "assign"
    /\ collectors' = Append(collectors, WiFiDataCollector)
    /\ collector' = Len(collectors) + 1
    /\ requests' = [requests EXCEPT ![t] = [at |-> "start", interval |-> @.interval]]
    /\ UNCHANGED << access_points, performance_metrics, now, last_call >>

(* lines 671-676: `collector.start_collection(...)` is called on the       *)
(* object the global names at that moment, then the request is answered    *)
(* 200; on None the AttributeError is answered 500                         *)
StartCollection(t) ==
    /\ requests[t].at = "start"
    /\ IF collector = None
       THEN /\ requests' = [requests EXCEPT ![t] = [at |-> "answered", status |-> 500]]
            /\ UNCHANGED collectors
       ELSE /\ collectors' = [collectors EXCEPT ![collector].started = TRUE]
            /\ requests' = [requests EXCEPT ![t] =
                   [at |-> "answered", status |-> 200,
                    interval |-> IF @.interval = None THEN 60 ELSE @.interval]]
    /\ UNCHANGED << access_points, performance_metrics, now, last_call, collector >>

(* the response is sent and the thread is free again *)
StartServed(t) ==
    /\ requests[t].at = "answered"
    /\ last_call' = [op |-> "start_data_collection", status |-> requests[t].status]
    /\ requests' = [requests EXCEPT ![t] = Idle]
    /\ UNCHANGED << access_points, performance_metrics, now, collector, collectors >>

NextRace ==
    \/ \E t \in Threads, interval \in Intervals : StartRequest(t, interval)
    \/ \E t \in Threads : StartCheck(t)
    \/ \E t \in Threads : StartAssign(t)
    \/ \E t \in Threads : StartCollection(t)
    \/ \E t \in Threads : StartServed(t)
    \/ StopDataCollection
    \/ GetCollectionStatus

(* the app once its module is loaded: init_db has filled the empty tables  *)
(* with the samples and `collector = None` has run (line 651)              *)
InitRace ==
    /\ now = 0
    /\ access_points =
           [k \in DOMAIN sample_ap_data |-> WithId(sample_ap_data[k], 1, k)]
    /\ \E draw \in [DOMAIN sample_ap_data -> SampleMetricData] :
           performance_metrics = SampleMetrics(draw)
    /\ last_call = NoCall
    /\ NoCollection

SpecRace == InitRace /\ [][NextRace]_vars

(* the collectors on which start_collection has been called and            *)
(* stop_collection has not, and that the global does not name              *)
Orphans(c, objects) == { k \in DOMAIN objects : objects[k].started /\ k # c }

(* the threads whose start request has been answered 200 and not yet sent *)
Answered200 == { t \in Threads : requests[t].at = "answered" /\ requests[t].status = 200 }

(* C30: start-collection requests interleave between the check of line 658 *)
(* and the assignment of line 670; every request that has passed the check *)
(* creates a collector and is answered 200 whatever the other requests     *)
(* have done meanwhile, and a started collector that the global does not   *)
(* name stays started and unnamed in every later step, a stop-collection   *)
(* included                                                                *)
C30_RacingStartsOrphan ==
    [][ /\ \A t \in Threads :
              /\ (requests[t].at = "assign" /\ requests'[t].at # "assign") =>
                     /\ requests'[t].at = "start"
                     /\ Len(collectors') = Len(collectors) + 1
              /\ (requests[t].at = "start" /\ requests'[t].at # "start") =>
                     /\ requests'[t].at = "answered"
                     /\ requests'[t].status = 200
        /\ Orphans(collector, collectors) \subseteq Orphans(collector', collectors') ]_vars

(* two requests have both passed the check and both been answered 200,     *)
(* two collectors are started, the global names the second, and a          *)
(* stop-collection request has since been answered without stopping the    *)
(* first                                                                   *)
C30_Witness ==
    /\ Cardinality(Answered200) >= 2
    /\ Orphans(collector, collectors) # { }
    /\ collector # None
    /\ collectors[collector].started
    /\ last_call.op = "stop_data_collection"

====
